---- MODULE Spec2Model ----
(***************************************************************************)
(* A model of safeye.py: the self-rescheduling scheduler, one pass of      *)
(* execute_requests over the probe definitions, the Notifier (send_email), *)
(* the configuration loader (read_requests_csv) and log housekeeping       *)
(* (clean_old_logs).                                                       *)
(*                                                                         *)
(* Strings whose characters matter are sequences of one-character strings. *)
(* Every invocation of scheduler() runs in a thread of its own (the main   *)
(* thread, then one threading.Timer thread per tick); the locals of        *)
(* execute_requests are functions of the thread.                           *)
(***************************************************************************)
EXTENDS Integers, Sequences, FiniteSets, TLC

\* Bounds of the model.
MaxPasses == 2      \* scheduler invocations (threads) that may be created
MaxDefs == 2        \* data rows of the configuration source

Threads == 1..MaxPasses

Range(s) == {s[k] : k \in DOMAIN s}

(***************************************************************************)
(* Python values of a CSV field: a str, or None (csv.DictReader's restval  *)
(* for a field missing from a short row).  An int is the default of        *)
(* row.get("expected_http_status", 200).                                   *)
(***************************************************************************)
PyNone == [k |-> "none"]
PyStr(chars) == [k |-> "str", v |-> chars]
PyInt(n) == [k |-> "int", v |-> n]

\* truth value of a field, as in `if row.get(...)`
Truthy(x) == x.k = "str" /\ x.v # << >>

\* dict.get(key, default)
Get(row, col, default) == IF col \in DOMAIN row THEN row[col] ELSE default

\* str.isalnum() of one character
Alnum == {"a", "b", "c", "d", "e", "f", "g", "j", "l", "o", "p", "r", "t", "u", "x",
          "E", "G", "T", "0", "1", "2", "5"}
isalnum(c) == c \in Alnum

\* str.isspace() of one character; LF is the line feed
LF == "\n"
isspace(c) == c \in {" ", LF}

\* str.upper() of one character
UpperChar(c) ==
  CASE c = "g" -> "G"
    [] c = "e" -> "E"
    [] c = "t" -> "T"
    [] c = "a" -> "A"
    [] c = "b" -> "B"
    [] c = "c" -> "C"
    [] c = "x" -> "X"
    [] c = "o" -> "O"
    [] OTHER -> c

upper(s) == [k \in 1..Len(s) |-> UpperChar(s[k])]

\* str.strip(): leading and trailing whitespace removed
RECURSIVE lstrip(_)
lstrip(s) == IF s # << >> /\ isspace(Head(s)) THEN lstrip(Tail(s)) ELSE s

RECURSIVE rstrip(_)
rstrip(s) ==
  IF s # << >> /\ isspace(s[Len(s)]) THEN rstrip(SubSeq(s, 1, Len(s) - 1)) ELSE s

strip(s) == rstrip(lstrip(s))

\* str.split(","): the pieces between commas, empty pieces kept
RECURSIVE split(_, _)
split(s, cur) ==
  IF s = << >> THEN <<cur>>
  ELSE IF Head(s) = "," THEN <<cur>> \o split(Tail(s), << >>)
  ELSE split(Tail(s), Append(cur, Head(s)))

\* [email.strip() for email in text.split(",") if email.strip()]
RECURSIVE stripped_nonempty(_)
stripped_nonempty(pieces) ==
  IF pieces = << >> THEN << >>
  ELSE IF strip(Head(pieces)) # << >>
       THEN <<strip(Head(pieces))>> \o stripped_nonempty(Tail(pieces))
       ELSE stripped_nonempty(Tail(pieces))

\* int(): decimal digits, surrounding whitespace allowed
Digits == {"0", "1", "2", "5"}
DigitVal(c) == CASE c = "0" -> 0 [] c = "1" -> 1 [] c = "2" -> 2 [] c = "5" -> 5

RECURSIVE digits_value(_, _)
digits_value(s, acc) ==
  IF s = << >> THEN acc ELSE digits_value(Tail(s), 10 * acc + DigitVal(Head(s)))

\* int(x) raises TypeError for None, ValueError for a str that is no literal
int_raises(x) ==
  \/ x.k = "none"
  \/ x.k = "str" /\ (strip(x.v) = << >> \/ \E k \in DOMAIN strip(x.v) : strip(x.v)[k] \notin Digits)

int(x) == IF x.k = "int" THEN x.v ELSE digits_value(strip(x.v), 0)

\* json.loads(): the texts of the model that are valid JSON documents
ValidJson == {<<"{", "}">>, <<"1">>}

\* the decoder recurses once per opening bracket; past the interpreter's
\* recursion limit it raises RecursionError, which is no JSONDecodeError
RecursionLimit == 1000
Deep == [k \in 1..RecursionLimit |-> "["]
json_too_deep(text) ==
  Len(text) >= RecursionLimit /\ \A k \in DOMAIN text : text[k] = "["

\* json.JSONDecodeError
json_raises(text) == text \notin ValidJson /\ ~json_too_deep(text)
json_loads(text) == [k |-> "json", v |-> text]
EmptyDict == [k |-> "json", v |-> <<"{", "}">>]

\* a version that only replaces white space
sanitize_filename_spaces(name) ==
  [k \in 1..Len(name) |-> IF isspace(name[k]) THEN "_" ELSE name[k]]

\* sanitize_filename(name)
sanitize_filename(name) ==
  [k \in 1..Len(name) |-> IF isalnum(name[k]) THEN name[k] ELSE "_"]

\* f"{sanitize_filename(config['project_name'])}.log"
LogSuffix == <<".", "l", "o", "g">>
project_log_filename(project_name) == sanitize_filename(project_name) \o LogSuffix

(***************************************************************************)
(* read_requests_csv.  A row is a function from the header's column names  *)
(* to fields.  The source is [readable, rows]; open() raises when it is    *)
(* not readable.                                                           *)
(***************************************************************************)
row_raises(row) ==
  \/ Get(row, "notify_emails", PyStr(<< >>)).k = "none"        \* None.split
  \/ int_raises(Get(row, "expected_http_status", PyInt(200)))
  \/ Get(row, "http_method", PyStr(<<"G", "E", "T">>)).k = "none"  \* None.upper
  \/ Truthy(Get(row, "headers_json", PyNone)) /\ json_too_deep(row["headers_json"].v)
  \/ Truthy(Get(row, "body_json", PyNone)) /\ json_too_deep(row["body_json"].v)

parse_headers(row) ==
  IF Truthy(Get(row, "headers_json", PyNone))
  THEN IF json_raises(row["headers_json"].v) THEN EmptyDict
       ELSE json_loads(row["headers_json"].v)
  ELSE EmptyDict

parse_body(row) ==
  IF Truthy(Get(row, "body_json", PyNone))
  THEN IF json_raises(row["body_json"].v) THEN PyNone
       ELSE json_loads(row["body_json"].v)
  ELSE PyNone

parse_row(row) ==
  [client |-> Get(row, "client", PyStr(<< >>)),
   project_name |-> Get(row, "project_name",
                        PyStr(<<"d", "e", "f", "a", "u", "l", "t", "_", "p", "r", "o", "j", "e", "c", "t">>)),
   endpoint |-> Get(row, "endpoint", PyNone),
   expected_http_status |-> int(Get(row, "expected_http_status", PyInt(200))),
   notify_emails |-> stripped_nonempty(split(Get(row, "notify_emails", PyStr(<< >>)).v, << >>)),
   body |-> parse_body(row),
   headers |-> parse_headers(row),
   http_method |-> upper(Get(row, "http_method", PyStr(<<"G", "E", "T">>)).v)]

read_requests_csv_raises(source) ==
  \/ ~source.readable
  \/ \E k \in DOMAIN source.rows : row_raises(source.rows[k])

read_requests_csv(source) ==
  [k \in 1..Len(source.rows) |-> parse_row(source.rows[k])]

(***************************************************************************)
(* send_email.  The message is built outside the try block: assigning a    *)
(* header whose value has a line break inside it raises ValueError, which  *)
(* escapes.  Everything the SMTP session raises is caught and printed.     *)
(***************************************************************************)
RECURSIVE join(_)
join(to_emails) ==
  IF to_emails = << >> THEN << >>
  ELSE IF Len(to_emails) = 1 THEN Head(to_emails)
  ELSE Head(to_emails) \o <<",", " ">> \o join(Tail(to_emails))

\* msg[...] = value raises when value.splitlines() has more than one line
header_raises(value) == \E k \in 1..(Len(value) - 1) : value[k] = LF

\* the text of an endpoint inside an f-string
endpoint_text(endpoint) == IF endpoint.k = "none" THEN <<"None">> ELSE endpoint.v

\* lines 42-46: msg["To"] and msg["Subject"]
message_raises(to_emails, subject) ==
  header_raises(join(to_emails)) \/ header_raises(subject)

\* what the SMTP session does: it works, or one of its calls raises
Delivery == {"ok", "smtp_error"}

\* the session without its except clause
smtp_session_uncaught(delivery) == IF delivery = "ok" THEN "sent" ELSE "raised"

\* lines 48-55: try ... except Exception: print
smtp_session(delivery) == IF delivery = "ok" THEN "sent" ELSE "caught"

send_email(to_emails, subject, delivery) ==
  IF message_raises(to_emails, subject) THEN "raised" ELSE smtp_session(delivery)

(***************************************************************************)
(* The inputs of the model.                                                *)
(***************************************************************************)
GET == <<"G", "E", "T">>

Row(project, status, emails) ==
  [client |-> PyStr(<<"c">>),
   project_name |-> PyStr(project),
   endpoint |-> PyStr(<<"e">>),
   expected_http_status |-> PyStr(status),
   notify_emails |-> PyStr(emails),
   headers_json |-> PyStr(<< >>),
   body_json |-> PyStr(<< >>),
   http_method |-> PyStr(GET)]

Rows ==
  {Row(<<"a">>, <<"2", "0", "0">>, <<"x", ",", " ", "x">>),  \* two recipients
   Row(<<"a", ".", "b">>, <<"2", "0", "0">>, << >>),         \* nobody to notify
   Row(<<"b">>, <<"2", "0", "0">>, <<"x", LF, "x">>),        \* a line break inside a recipient
   Row(<<"b">>, << >>, <<"x">>)}                             \* empty expected_http_status

\* the sequences of at most n different elements of S
RECURSIVE SeqsUpTo(_, _)
SeqsUpTo(S, n) ==
  IF n = 0 THEN {<< >>}
  ELSE SeqsUpTo(S, n - 1)
         \cup UNION {{Append(q, x) : x \in S \ Range(q)} :
                       q \in {r \in SeqsUpTo(S, n - 1) : Len(r) = n - 1}}

Sources ==
  {[readable |-> TRUE, rows |-> rs] : rs \in SeqsUpTo(Rows, MaxDefs)}
    \cup {[readable |-> FALSE, rows |-> << >>]}

StatusCodes == {200, 500}

ProjectNames == {r.project_name.v : r \in Rows}
RootLogger == << >>
LoggerNames == ProjectNames \cup {RootLogger}

StaleNames == {<<"o">>, <<"p">>}
FileNames == {project_log_filename(n) : n \in ProjectNames} \cup StaleNames

max_age_days == 30
CHECK_INTERVAL == 30 * 60

\* the seconds that pass in one step of the clock
TimeStep == 900

\* timedelta(days=1), in seconds
Day == 24 * 60 * 60

Absent == [state |-> "absent", age |-> 0, lines |-> << >>]
File(age) == [state |-> "file", age |-> age, lines |-> << >>]
\* an entry for which os.path.isfile is false
Subdir(age) == [state |-> "dir", age |-> age, lines |-> << >>]

\* logs/ when the process starts: what earlier runs left behind
Dir(o, p) ==
  [f \in FileNames |-> IF f = <<"o">> THEN o ELSE IF f = <<"p">> THEN p ELSE Absent]

InitDirs ==
  {Dir(Absent, Absent), Dir(File(31 * Day), File(31 * Day)), Dir(File(31 * Day), File(0)),
   Dir(File(30 * Day), Subdir(31 * Day))}

\* nothing read yet
NotLoaded == [readable |-> FALSE, rows |-> << >>]

(***************************************************************************)
(* State.                                                                  *)
(***************************************************************************)
VARIABLES
  csv,               \* requests.csv
  logs_dir,          \* whether the directory logs/ exists
  files,             \* the entries of logs/: state, age in seconds, lines
  before,            \* logs/ as each thread's clean_old_logs found it
  handlers,          \* logging's registry: the handlers of each logger
  resume_log,        \* the lines of resume.log
  pc,                \* where each scheduler thread is
  listing,           \* clean_old_logs: entries of os.listdir not yet examined
  request_configs,   \* execute_requests: the list read from the source
  idx,               \* execute_requests: position of the for loop
  projects_in_alert, \* execute_requests: the alert counter
  exc,               \* an exception is propagating through the finally clause
  loaded,            \* the source as the latest pass read it
  waited,            \* seconds the timer of each thread has waited since start()
  events,            \* what the pass of each thread has done, in order
  arg,               \* the argument of a function called on its own
  result             \* what that call gave

\* the state of the monitoring process
program == <<csv, logs_dir, files, handlers, resume_log, pc, listing,
             request_configs, idx, projects_in_alert, exc, before, loaded, waited, events>>

vars == <<csv, logs_dir, files, handlers, resume_log, pc, listing,
          request_configs, idx, projects_in_alert, exc, before, loaded, waited, events,
          arg, result>>

\* the outcome of a call: not made yet, returned a value, or raised
NotCalled == [done |-> FALSE]
Returned(v) == [done |-> TRUE, raised |-> FALSE, v |-> v]
Raised == [done |-> TRUE, raised |-> TRUE]

PassStates == {"clean", "read", "begin", "request", "notify", "except",
               "notify_error", "finally", "summary"}

InFlight(t) == pc[t] \in PassStates

\* an event of the pass of thread t: what, at which definition, and the
\* alert counter after it
Ev(kind, i, n) == [e |-> kind, i |-> i, n |-> n]

\* an invocation of send_email: whether an SMTP session took place and how
\* it went, and how send_email ended
MailEv(i, n, to_emails, subject, delivery) ==
  [e |-> "send_email", i |-> i, n |-> n, to |-> to_emails,
   smtp |-> IF message_raises(to_emails, subject) THEN "none" ELSE delivery,
   result |-> send_email(to_emails, subject, delivery)]

\* the definition the for loop of thread t is at
config(t) == request_configs[t][idx[t]]

(***************************************************************************)
(* logging: a record goes to the handlers of the logger and of every       *)
(* ancestor in the dotted-name hierarchy, up to the root logger.  Each     *)
(* handler appends to the file it opened.                                  *)
(***************************************************************************)
AncestorsOrSelf(name) ==
  {SubSeq(name, 1, k - 1) : k \in {j \in 1..Len(name) : name[j] = "."}}
    \cup {name, RootLogger}

Targets(h, name) == UNION {h[n] : n \in AncestorsOrSelf(name) \cap DOMAIN h}

Entry(kind, project_name) == [msg |-> kind, project |-> project_name]

Emit(fs, h, name, kind) ==
  [f \in DOMAIN fs |->
     IF f \in Targets(h, name) /\ fs[f].state = "file"
     THEN [fs[f] EXCEPT !.age = 0, !.lines = Append(@, Entry(kind, name))]
     ELSE fs[f]]

(***************************************************************************)
(* Init: the process has just been started.                                *)
(***************************************************************************)
Init ==
  /\ csv \in Sources
  /\ logs_dir \in BOOLEAN
  /\ files \in InitDirs
  /\ ~logs_dir => \A f \in FileNames : files[f] = Absent
  /\ handlers = [n \in LoggerNames |-> {}]
  /\ resume_log = << >>
  /\ pc = [t \in Threads |-> IF t = 1 THEN "main" ELSE "unborn"]
  /\ listing = [t \in Threads |-> {}]
  /\ request_configs = [t \in Threads |-> << >>]
  /\ idx = [t \in Threads |-> 0]
  /\ projects_in_alert = [t \in Threads |-> 0]
  /\ exc = [t \in Threads |-> FALSE]
  /\ waited = [t \in Threads |-> 0]
  /\ loaded = [t \in Threads |-> NotLoaded]
  /\ before = [t \in Threads |-> Dir(Absent, Absent)]
  /\ events = [t \in Threads |-> << >>]
  /\ arg = << >>
  /\ result = NotCalled

(***************************************************************************)
(* scheduler(): the call from __main__ or from the timer thread.  The      *)
(* thread enters execute_requests: ensure_log_dir(), then clean_old_logs   *)
(* takes its directory listing.                                            *)
(***************************************************************************)
Unborn == {u \in Threads : pc[u] = "unborn"}
FreshThread == CHOOSE u \in Unborn : \A w \in Unborn : u <= w

\* a fixed-period variant: the timer is started before the pass
scheduler_timer_first(t) ==
  /\ pc[t] = "main" \/ (pc[t] = "timer" /\ waited[t] >= CHECK_INTERVAL)
  /\ pc' = IF Unborn # {} THEN [pc EXCEPT ![t] = "clean", ![FreshThread] = "timer"]
           ELSE [pc EXCEPT ![t] = "clean"]
  /\ logs_dir' = TRUE
  /\ listing' = [listing EXCEPT ![t] = {f \in FileNames : files[f].state # "absent"}]
  /\ before' = [before EXCEPT ![t] = files]
  /\ UNCHANGED <<arg, result, loaded, waited, csv, files, handlers, resume_log, request_configs, idx,
                 projects_in_alert, exc, events>>

\* a timer that calls back without waiting
scheduler_no_wait(t) ==
  /\ pc[t] \in {"main", "timer"}
  /\ pc' = [pc EXCEPT ![t] = "clean"]
  /\ logs_dir' = TRUE
  /\ listing' = [listing EXCEPT ![t] = {f \in FileNames : files[f].state # "absent"}]
  /\ before' = [before EXCEPT ![t] = files]
  /\ UNCHANGED <<arg, result, loaded, waited, csv, files, handlers, resume_log, request_configs, idx,
                 projects_in_alert, exc, events>>

scheduler(t) ==
  /\ pc[t] = "main" \/ (pc[t] = "timer" /\ waited[t] >= CHECK_INTERVAL)
  /\ pc' = [pc EXCEPT ![t] = "clean"]
  /\ logs_dir' = TRUE
  /\ listing' = [listing EXCEPT ![t] = {f \in FileNames : files[f].state # "absent"}]
  /\ before' = [before EXCEPT ![t] = files]
  /\ UNCHANGED <<arg, result, loaded, waited, csv, files, handlers, resume_log, request_configs, idx,
                 projects_in_alert, exc, events>>

\* threading.Timer(CHECK_INTERVAL, scheduler).start(), after the pass returned
start_timer(t) ==
  /\ pc[t] = "returned"
  /\ Unborn # {}
  /\ pc' = [pc EXCEPT ![t] = "done", ![FreshThread] = "timer"]
  /\ listing' = [listing EXCEPT ![t] = {}]
  /\ request_configs' = [request_configs EXCEPT ![t] = << >>]
  /\ idx' = [idx EXCEPT ![t] = 0]
  /\ projects_in_alert' = [projects_in_alert EXCEPT ![t] = 0]
  /\ events' = [events EXCEPT ![t] = << >>]
  /\ UNCHANGED <<arg, result, before, loaded, waited, csv, logs_dir, files, handlers, resume_log, exc>>

\* time passes while a timer waits: Timer.run() is finished.wait(interval)
tick ==
  /\ \E t \in Threads : pc[t] = "timer" /\ waited[t] < CHECK_INTERVAL
  /\ waited' = [t \in Threads |->
                  IF pc[t] = "timer" /\ waited[t] + TimeStep < CHECK_INTERVAL
                  THEN waited[t] + TimeStep
                  ELSE IF pc[t] = "timer" THEN CHECK_INTERVAL ELSE waited[t]]
  /\ files' = [f \in FileNames |->
                 IF files[f].state = "absent" THEN files[f]
                 ELSE [files[f] EXCEPT !.age = @ + TimeStep]]
  /\ UNCHANGED <<arg, result, before, loaded, csv, logs_dir, handlers, resume_log, pc, listing,
                 request_configs, idx, projects_in_alert, exc, events>>

\* somebody edits requests.csv between two passes: the first data row goes
edit_csv ==
  /\ \E t \in Threads : pc[t] = "timer"
  /\ csv.readable /\ csv.rows # << >>
  /\ csv' = [csv EXCEPT !.rows = Tail(@)]
  /\ UNCHANGED <<arg, result, before, loaded, waited, logs_dir, files, handlers, resume_log, pc, listing,
                 request_configs, idx, projects_in_alert, exc, events>>

(***************************************************************************)
(* clean_old_logs: one iteration of the loop over os.listdir, in the       *)
(* directory's order.  os.remove may raise; nothing catches it.            *)
(***************************************************************************)
\* a retention test that also takes the file that is exactly max_age_days old
is_old_inclusive(f) == files[f].state = "file" /\ files[f].age >= max_age_days * Day

is_old(f) == files[f].state = "file" /\ files[f].age > max_age_days * Day

clean_old_logs_next(t) ==
  /\ pc[t] = "clean"
  /\ \E f \in listing[t] :
       /\ listing' = [listing EXCEPT ![t] = @ \ {f}]
       /\ files' = IF is_old(f) THEN [files EXCEPT ![f] = Absent] ELSE files
  /\ UNCHANGED <<arg, result, before, loaded, waited, csv, logs_dir, handlers, resume_log, pc, request_configs, idx,
                 projects_in_alert, exc, events>>

clean_old_logs_raise(t) ==
  /\ pc[t] = "clean"
  /\ \E f \in listing[t] : is_old(f)
  /\ pc' = [pc EXCEPT ![t] = "dead"]
  /\ UNCHANGED <<arg, result, before, loaded, waited, csv, logs_dir, files, handlers, resume_log, listing,
                 request_configs, idx, projects_in_alert, exc, events>>

clean_old_logs_return(t) ==
  /\ pc[t] = "clean"
  /\ listing[t] = {}
  /\ pc' = [pc EXCEPT ![t] = "read"]
  /\ UNCHANGED <<arg, result, before, loaded, waited, csv, logs_dir, files, handlers, resume_log, listing,
                 request_configs, idx, projects_in_alert, exc, events>>

(***************************************************************************)
(* request_configs = read_requests_csv(REQUESTS_CSV), the two counters and *)
(* the head of the for loop.                                               *)
(***************************************************************************)
\* a loader that keeps the list of the pass before
load_requests_cached(t) ==
  /\ pc[t] = "read"
  /\ loaded' = [u \in Threads |-> IF u = t THEN csv ELSE NotLoaded]
  /\ LET source == IF t > 1 THEN loaded[t - 1] ELSE csv
     IN IF read_requests_csv_raises(source)
        THEN /\ pc' = [pc EXCEPT ![t] = "dead"]
             /\ UNCHANGED <<request_configs, idx, projects_in_alert>>
        ELSE /\ request_configs' = [request_configs EXCEPT ![t] = read_requests_csv(source)]
             /\ projects_in_alert' = [projects_in_alert EXCEPT ![t] = 0]
             /\ idx' = [idx EXCEPT ![t] = 1]
             /\ pc' = [pc EXCEPT ![t] =
                         IF read_requests_csv(source) = << >> THEN "summary" ELSE "begin"]
  /\ before' = [before EXCEPT ![t] = Dir(Absent, Absent)]
  /\ UNCHANGED <<arg, result, waited, csv, logs_dir, files, handlers, resume_log, listing, exc, events>>

load_requests(t) ==
  /\ pc[t] = "read"
  /\ loaded' = [u \in Threads |-> IF u = t THEN csv ELSE NotLoaded]
  /\ IF read_requests_csv_raises(csv)
     THEN /\ pc' = [pc EXCEPT ![t] = "dead"]
          /\ UNCHANGED <<request_configs, idx, projects_in_alert>>
     ELSE /\ request_configs' = [request_configs EXCEPT ![t] = read_requests_csv(csv)]
          /\ projects_in_alert' = [projects_in_alert EXCEPT ![t] = 0]
          /\ idx' = [idx EXCEPT ![t] = 1]
          /\ pc' = [pc EXCEPT ![t] =
                      IF read_requests_csv(csv) = << >> THEN "summary" ELSE "begin"]
  /\ before' = [before EXCEPT ![t] = Dir(Absent, Absent)]
  /\ UNCHANGED <<arg, result, waited, csv, logs_dir, files, handlers, resume_log, listing, exc, events>>

(***************************************************************************)
(* The head of the loop body: the logger of the project gets a fresh       *)
(* FileHandler on logs/<sanitized name>.log (opened for append at once),    *)
(* and the starting entry is logged.  The open may raise; it is outside    *)
(* the try block.                                                          *)
(***************************************************************************)
open_log(t) ==
  /\ pc[t] = "begin"
  /\ LET name == config(t).project_name.v
         path == project_log_filename(name)
         opened == [files EXCEPT ![path] = IF @.state = "absent" THEN File(0) ELSE @]
         h == [handlers EXCEPT ![name] = {path}]
     IN /\ handlers' = h
        /\ files' = Emit(opened, h, name, "starting")
        /\ events' = [events EXCEPT ![t] = Append(@, Ev("starting", idx[t], projects_in_alert[t]))]
        /\ pc' = [pc EXCEPT ![t] = "request"]
  /\ UNCHANGED <<arg, result, before, loaded, waited, csv, logs_dir, resume_log, listing, request_configs, idx,
                 projects_in_alert, exc>>

open_log_raise(t) ==
  /\ pc[t] = "begin"
  /\ handlers' = [handlers EXCEPT ![config(t).project_name.v] = {}]
  /\ pc' = [pc EXCEPT ![t] = "dead"]
  /\ UNCHANGED <<arg, result, before, loaded, waited, csv, logs_dir, files, resume_log, listing, request_configs, idx,
                 projects_in_alert, exc, events>>

(***************************************************************************)
(* requests.request and the classification of the response.                *)
(***************************************************************************)
request(t) ==
  /\ pc[t] = "request"
  /\ \E status_code \in StatusCodes :
       LET name == config(t).project_name.v
           done == Emit(files, handlers, name, "completed")
       IN IF status_code # config(t).expected_http_status
          THEN /\ files' = Emit(done, handlers, name, "error")
               /\ projects_in_alert' = [projects_in_alert EXCEPT ![t] = @ + 1]
               /\ events' = [events EXCEPT ![t] =
                               @ \o <<Ev("request", idx[t], projects_in_alert[t]),
                                      Ev("mismatch", idx[t], projects_in_alert[t] + 1)>>]
               /\ pc' = [pc EXCEPT ![t] =
                           IF config(t).notify_emails # << >> THEN "notify" ELSE "finally"]
          ELSE /\ files' = done
               /\ events' = [events EXCEPT ![t] =
                               @ \o <<Ev("request", idx[t], projects_in_alert[t]),
                                      Ev("match", idx[t], projects_in_alert[t])>>]
               /\ pc' = [pc EXCEPT ![t] = "finally"]
               /\ UNCHANGED projects_in_alert
  /\ UNCHANGED <<arg, result, before, loaded, waited, csv, logs_dir, handlers, resume_log, listing, request_configs, idx, exc>>

request_raise(t) ==
  /\ pc[t] = "request"
  /\ events' = [events EXCEPT ![t] =
                  @ \o <<Ev("request", idx[t], projects_in_alert[t]),
                         Ev("transport_error", idx[t], projects_in_alert[t])>>]
  /\ pc' = [pc EXCEPT ![t] = "except"]
  /\ UNCHANGED <<arg, result, before, loaded, waited, csv, logs_dir, files, handlers, resume_log, listing,
                 request_configs, idx, projects_in_alert, exc>>

\* send_email inside the try block, after a status mismatch
notify(t) ==
  /\ pc[t] = "notify"
  /\ \E delivery \in Delivery :
       LET subject == <<"Unexpected status code from ">> \o endpoint_text(config(t).endpoint)
           r == send_email(config(t).notify_emails, subject, delivery)
       IN /\ events' = [events EXCEPT ![t] =
                          Append(@, MailEv(idx[t], projects_in_alert[t],
                                           config(t).notify_emails, subject, delivery))]
          /\ pc' = [pc EXCEPT ![t] = IF r = "raised" THEN "except" ELSE "finally"]
  /\ UNCHANGED <<arg, result, before, loaded, waited, csv, logs_dir, files, handlers, resume_log, listing,
                 request_configs, idx, projects_in_alert, exc>>

\* a handler that forgets the counter
except_handler_uncounted(t) ==
  /\ pc[t] = "except"
  /\ files' = Emit(files, handlers, config(t).project_name.v, "error")
  /\ events' = [events EXCEPT ![t] =
                  Append(@, Ev("handled", idx[t], projects_in_alert[t]))]
  /\ pc' = [pc EXCEPT ![t] =
              IF config(t).notify_emails # << >> THEN "notify_error" ELSE "finally"]
  /\ UNCHANGED <<arg, result, before, loaded, waited, csv, logs_dir, handlers, resume_log, listing, request_configs,
                 idx, projects_in_alert, exc>>

\* except Exception as e: the error entry and the counter
except_handler(t) ==
  /\ pc[t] = "except"
  /\ files' = Emit(files, handlers, config(t).project_name.v, "error")
  /\ projects_in_alert' = [projects_in_alert EXCEPT ![t] = @ + 1]
  /\ events' = [events EXCEPT ![t] =
                  Append(@, Ev("handled", idx[t], projects_in_alert[t] + 1))]
  /\ pc' = [pc EXCEPT ![t] =
              IF config(t).notify_emails # << >> THEN "notify_error" ELSE "finally"]
  /\ UNCHANGED <<arg, result, before, loaded, waited, csv, logs_dir, handlers, resume_log, listing, request_configs,
                 idx, exc>>

\* send_email inside the except block: what it raises propagates
notify_error(t) ==
  /\ pc[t] = "notify_error"
  /\ \E delivery \in Delivery :
       LET subject == <<"Error during request to ">> \o endpoint_text(config(t).endpoint)
           r == send_email(config(t).notify_emails, subject, delivery)
       IN /\ events' = [events EXCEPT ![t] =
                          Append(@, MailEv(idx[t], projects_in_alert[t],
                                           config(t).notify_emails, subject, delivery))]
          /\ exc' = [exc EXCEPT ![t] = (r = "raised")]
  /\ pc' = [pc EXCEPT ![t] = "finally"]
  /\ UNCHANGED <<arg, result, before, loaded, waited, csv, logs_dir, files, handlers, resume_log, listing,
                 request_configs, idx, projects_in_alert>>

\* the finished entry written after the try statement instead of in its
\* finally clause: a propagating exception skips it
finally_after_try(t) ==
  /\ pc[t] = "finally"
  /\ IF exc[t]
     THEN /\ pc' = [pc EXCEPT ![t] = "dead"]
          /\ UNCHANGED <<idx, files, events>>
     ELSE /\ files' = Emit(files, handlers, config(t).project_name.v, "finished")
          /\ events' = [events EXCEPT ![t] =
                          Append(@, Ev("finished", idx[t], projects_in_alert[t]))]
          /\ idx' = [idx EXCEPT ![t] = @ + 1]
          /\ pc' = [pc EXCEPT ![t] =
                      IF idx[t] < Len(request_configs[t]) THEN "begin" ELSE "summary"]
  /\ UNCHANGED <<arg, result, before, loaded, waited, csv, logs_dir, handlers, resume_log, listing, request_configs,
                 projects_in_alert, exc>>

\* a loop that steps over the definition after the current one
finally_skips_next(t) ==
  /\ pc[t] = "finally"
  /\ files' = Emit(files, handlers, config(t).project_name.v, "finished")
  /\ events' = [events EXCEPT ![t] = Append(@, Ev("finished", idx[t], projects_in_alert[t]))]
  /\ IF exc[t]
     THEN /\ pc' = [pc EXCEPT ![t] = "dead"]
          /\ UNCHANGED idx
     ELSE /\ idx' = [idx EXCEPT ![t] = @ + 2]
          /\ pc' = [pc EXCEPT ![t] =
                      IF idx[t] + 1 < Len(request_configs[t]) THEN "begin" ELSE "summary"]
  /\ UNCHANGED <<arg, result, before, loaded, waited, csv, logs_dir, handlers, resume_log, listing, request_configs,
                 projects_in_alert, exc>>

\* finally: the finished entry; then the next definition, or the exception goes on
finally(t) ==
  /\ pc[t] = "finally"
  /\ files' = Emit(files, handlers, config(t).project_name.v, "finished")
  /\ events' = [events EXCEPT ![t] = Append(@, Ev("finished", idx[t], projects_in_alert[t]))]
  /\ IF exc[t]
     THEN /\ pc' = [pc EXCEPT ![t] = "dead"]
          /\ UNCHANGED idx
     ELSE /\ idx' = [idx EXCEPT ![t] = @ + 1]
          /\ pc' = [pc EXCEPT ![t] =
                      IF idx[t] < Len(request_configs[t]) THEN "begin" ELSE "summary"]
  /\ UNCHANGED <<arg, result, before, loaded, waited, csv, logs_dir, handlers, resume_log, listing, request_configs,
                 projects_in_alert, exc>>

(***************************************************************************)
(* The summary line appended to resume.log; the open may raise.            *)
(***************************************************************************)
Summary(total_projects, alerts) == [total |-> total_projects, alert |-> alerts]

\* a summary that reports the position of the loop as the total
write_summary_off_by_one(t) ==
  /\ pc[t] = "summary"
  /\ resume_log' = Append(resume_log, Summary(idx[t], projects_in_alert[t]))
  /\ events' = [events EXCEPT ![t] = Append(@, Ev("summary", 0, projects_in_alert[t]))]
  /\ pc' = [pc EXCEPT ![t] = "returned"]
  /\ UNCHANGED <<arg, result, before, loaded, waited, csv, logs_dir, files, handlers, listing, request_configs, idx,
                 projects_in_alert, exc>>

write_summary(t) ==
  /\ pc[t] = "summary"
  /\ resume_log' = Append(resume_log,
                          Summary(Len(request_configs[t]), projects_in_alert[t]))
  /\ events' = [events EXCEPT ![t] = Append(@, Ev("summary", 0, projects_in_alert[t]))]
  /\ pc' = [pc EXCEPT ![t] = "returned"]
  /\ UNCHANGED <<arg, result, before, loaded, waited, csv, logs_dir, files, handlers, listing, request_configs, idx,
                 projects_in_alert, exc>>

write_summary_raise(t) ==
  /\ pc[t] = "summary"
  /\ pc' = [pc EXCEPT ![t] = "dead"]
  /\ UNCHANGED <<arg, result, before, loaded, waited, csv, logs_dir, files, handlers, resume_log, listing,
                 request_configs, idx, projects_in_alert, exc, events>>

Next ==
  \/ tick
  \/ edit_csv
  \/ \E t \in Threads :
    \/ scheduler(t)
    \/ clean_old_logs_next(t)
    \/ clean_old_logs_raise(t)
    \/ clean_old_logs_return(t)
    \/ load_requests(t)
    \/ open_log(t)
    \/ open_log_raise(t)
    \/ request(t)
    \/ request_raise(t)
    \/ notify(t)
    \/ except_handler(t)
    \/ notify_error(t)
    \/ finally(t)
    \/ write_summary(t)
    \/ write_summary_raise(t)
    \/ start_timer(t)

Spec == Init /\ [][Next]_vars

(***************************************************************************)
(* The functions called on their own, as the unit tests call them: the     *)
(* monitoring process stays as it is before its first pass.                *)
(***************************************************************************)
Idle ==
  /\ csv = [readable |-> FALSE, rows |-> << >>]
  /\ logs_dir = FALSE
  /\ files = Dir(Absent, Absent)
  /\ handlers = [n \in LoggerNames |-> {}]
  /\ resume_log = << >>
  /\ pc = [t \in Threads |-> IF t = 1 THEN "main" ELSE "unborn"]
  /\ listing = [t \in Threads |-> {}]
  /\ request_configs = [t \in Threads |-> << >>]
  /\ idx = [t \in Threads |-> 0]
  /\ projects_in_alert = [t \in Threads |-> 0]
  /\ exc = [t \in Threads |-> FALSE]
  /\ waited = [t \in Threads |-> 0]
  /\ loaded = [t \in Threads |-> NotLoaded]
  /\ before = [t \in Threads |-> Dir(Absent, Absent)]
  /\ events = [t \in Threads |-> << >>]

\* sanitize_filename(name) for the names of at most MaxLen characters
MaxLen == 3
NameChars == {"a", "0", ".", "_", " "}
Names == UNION {[1..n -> NameChars] : n \in 0..MaxLen}

InitSanitize == Idle /\ arg \in Names /\ result = NotCalled

call_sanitize_filename ==
  /\ ~result.done
  /\ result' = Returned(sanitize_filename(arg))
  /\ UNCHANGED <<program, arg>>

NextSanitize == call_sanitize_filename

SpecSanitize == InitSanitize /\ [][NextSanitize]_vars

\* read_requests_csv(file_path) for files of at most MaxRows data rows.  A
\* row of the file gives every column of the header; a short row leaves its
\* last columns None; a header may lack a column altogether.
MaxRows == 2

CsvRow(client, headers_json, body_json, expected_http_status, http_method) ==
  [Row(<<"a">>, << >>, << >>) EXCEPT
     !.client = PyStr(client),
     !.headers_json = headers_json,
     !.body_json = body_json,
     !.expected_http_status = expected_http_status,
     !.http_method = http_method]

OK200 == PyStr(<<"2", "0", "0">>)
get == PyStr(<<"g", "e", "t">>)
Empty == PyStr(<< >>)

CsvRows ==
  {CsvRow(<<"1">>, Empty, Empty, OK200, get),                        \* no JSON given
   CsvRow(<<"2">>, PyStr(<<"{">>), PyStr(<<"{">>), OK200, get),      \* both malformed
   CsvRow(<<"3">>, PyStr(<<"{", "}">>), PyStr(<<"1">>), OK200, get), \* both well-formed
   CsvRow(<<"4">>, PyStr(Deep), Empty, OK200, get),                  \* opening brackets only
   CsvRow(<<"5">>, Empty, Empty, Empty, get),                        \* empty expected_http_status
   CsvRow(<<"6">>, Empty, Empty, OK200, PyNone),                     \* short row: no http_method
   CsvRow(<<"7">>, Empty, Empty, PyNone, PyNone),                    \* shorter: no status either
   CsvRow(<<"8">>, Empty, Empty, OK200, Empty)}                      \* empty http_method

\* the columns a header may lack
Dropped == {{}, {"expected_http_status"}, {"http_method"}, {"headers_json", "body_json"}}
Without(row, cols) == [c \in DOMAIN row \ cols |-> row[c]]

CsvSources ==
  {[readable |-> TRUE, rows |-> [k \in DOMAIN rs |-> Without(rs[k], cols)]] :
     rs \in SeqsUpTo(CsvRows, MaxRows), cols \in Dropped}

InitCsv == Idle /\ arg \in CsvSources /\ result = NotCalled

call_read_requests_csv ==
  /\ ~result.done
  /\ result' = IF read_requests_csv_raises(arg) THEN Raised
               ELSE Returned(read_requests_csv(arg))
  /\ UNCHANGED <<program, arg>>

NextCsv == call_read_requests_csv

SpecCsv == InitCsv /\ [][NextCsv]_vars

TypeOK ==
  /\ pc \in [Threads -> PassStates \cup {"main", "timer", "unborn", "returned", "done", "dead"}]
  /\ \A t \in Threads : projects_in_alert[t] \in Nat

(***************************************************************************)
(* What the events of a pass say about its definitions.                    *)
(***************************************************************************)
EvIdx(t, i, kind) ==
  {k \in DOMAIN events[t] : events[t][k].e = kind /\ events[t][k].i = i}

HasEv(t, i, kind) == EvIdx(t, i, kind) # {}
HttpCalls(t, i) == Cardinality(EvIdx(t, i, "request"))
MailCalls(t, i) == Cardinality(EvIdx(t, i, "send_email"))
CounterAt(t, i, kind) == events[t][CHOOSE k \in EvIdx(t, i, kind) : TRUE].n

Defs(t) == 1..Len(request_configs[t])
InBody(t) == pc[t] \in {"request", "notify", "except", "notify_error", "finally"}
PassOver(t) == pc[t] \in {"returned", "dead"}
AlertDefs(t) == {i \in Defs(t) : HasEv(t, i, "mismatch") \/ HasEv(t, i, "transport_error")}

\* C1: at most one pass is in flight: while a thread is inside
\* execute_requests, every other thread is either not created yet or has
\* ended, so no timer is armed and no other pass runs before the pass returns.
C1_OnePassInFlight ==
  \A t, u \in Threads : t # u /\ InFlight(t) => pc[u] \in {"unborn", "done"}

\* a second pass is in flight after the first one has completed
C1_Witness == pc[1] = "done" /\ pc[2] = "request"

\* C2: no error is fatal to the scheduler: when a scheduler thread has ended
\* with an error, a further pass is armed or running.
C2_SchedulerKeepsTicking ==
  \A t \in Threads : pc[t] = "dead" => \E u \in Threads : pc[u] = "timer" \/ InFlight(u)

\* C3: a failure while processing definition i never prevents a later
\* definition j of the same pass from being evaluated and logged.
FailureAt(t, i) ==
  \/ pc[t] = "dead" /\ idx[t] = i
  \/ HasEv(t, i, "transport_error")
  \/ \E k \in EvIdx(t, i, "send_email") : events[t][k].result # "sent"

C3_FailuresIsolated ==
  \A t \in Threads : PassOver(t) =>
    \A i, j \in Defs(t) :
      (i < j /\ FailureAt(t, i) /\ ~(pc[t] = "dead" /\ idx[t] = j))
        => HasEv(t, j, "starting") /\ HasEv(t, j, "request") /\ HasEv(t, j, "finished")

\* C4: the summary line of a pass reports the number of definitions loaded
\* and the number of those whose outcome was a transport failure or a status
\* mismatch, each counted once.
C4_SummaryCounts ==
  \A t \in Threads : pc[t] = "returned" =>
    /\ resume_log # << >>
    /\ resume_log[Len(resume_log)] =
         Summary(Len(request_configs[t]), Cardinality(AlertDefs(t)))
    /\ (Len(request_configs[t]) = 1 /\ HasEv(t, 1, "match")) =>
         resume_log[Len(resume_log)] = Summary(1, 0)

\* a pass of two definitions, one of them in alert, has written its summary
C4_Witness ==
  \E t \in Threads :
    /\ pc[t] = "returned"
    /\ Len(request_configs[t]) = 2
    /\ Cardinality(AlertDefs(t)) = 1

\* C5: a matching status produces no notification; a status mismatch
\* produces exactly one notification, to the definition's recipients, when
\* notify_emails is non-empty and none when it is empty.
C5_NotificationFollowsClassification ==
  \A t \in Threads : \A i \in Defs(t) :
    HasEv(t, i, "finished") =>
      /\ HasEv(t, i, "match") => MailCalls(t, i) = 0
      /\ HasEv(t, i, "mismatch") =>
           /\ MailCalls(t, i) = IF request_configs[t][i].notify_emails # << >> THEN 1 ELSE 0
           /\ \A k \in EvIdx(t, i, "send_email") :
                events[t][k].to = request_configs[t][i].notify_emails

\* C6: a transport error of the HTTP call grows the alert counter by exactly
\* one for that definition, and send_email is invoked exactly once if
\* notify_emails is non-empty and not at all if it is empty.
C6_TransportErrorCounted ==
  \A t \in Threads : \A i \in Defs(t) :
    (HasEv(t, i, "transport_error") /\ HasEv(t, i, "finished")) =>
      /\ CounterAt(t, i, "finished") = CounterAt(t, i, "starting") + 1
      /\ MailCalls(t, i) = IF request_configs[t][i].notify_emails # << >> THEN 1 ELSE 0

\* a definition with recipients whose HTTP call raised has been finished
C6_Witness ==
  \E t \in Threads : \E i \in Defs(t) :
    /\ HasEv(t, i, "transport_error")
    /\ HasEv(t, i, "finished")
    /\ request_configs[t][i].notify_emails # << >>

\* C7: every definition whose starting entry was recorded gets a finished
\* entry after it, on every exit path: once the loop body of a definition is
\* left, its finished event follows its starting event, and the project's
\* log file holds as many finished entries as starting entries.
Count(lines, kind, name) ==
  Cardinality({k \in DOMAIN lines : lines[k] = Entry(kind, name)})

C7_FinishedAlwaysLogged ==
  /\ \A t \in Threads : \A i \in Defs(t) :
       (HasEv(t, i, "starting") /\ ~(InBody(t) /\ idx[t] = i)) =>
         \E p \in EvIdx(t, i, "starting") : \E q \in EvIdx(t, i, "finished") : p < q
  /\ \A name \in ProjectNames :
       (\A t \in Threads : ~(InBody(t) /\ config(t).project_name.v = name)) =>
         Count(files[project_log_filename(name)].lines, "finished", name)
           = Count(files[project_log_filename(name)].lines, "starting", name)

\* the notification raised inside the except block and the finished entry
\* was still written before the exception left the loop
C7_Witness ==
  \E t \in Threads :
    /\ pc[t] = "dead"
    /\ exc[t]
    /\ HasEv(t, idx[t], "finished")

\* C8: processing a definition issues at most one HTTP request and invokes
\* at most one email dispatch.
C8_AtMostOneRequestAndEmail ==
  \A t \in Threads : \A i \in Defs(t) : HttpCalls(t, i) <= 1 /\ MailCalls(t, i) <= 1

\* C9: a delivery failure inside the SMTP session is caught: send_email
\* returns normally, no exception propagates, the definition records its
\* finished entry and the pass does not end at that definition.
C9_DeliveryFailureCaught ==
  \A t \in Threads : \A i \in Defs(t) :
    \A k \in EvIdx(t, i, "send_email") :
      events[t][k].smtp = "smtp_error" =>
        /\ events[t][k].result = "caught"
        /\ ~(exc[t] /\ idx[t] = i)
        /\ ~(pc[t] = "dead" /\ idx[t] = i)
        /\ (k = Len(events[t]) => pc[t] = "finally")
        /\ ~(InBody(t) /\ idx[t] = i) => HasEv(t, i, "finished")

\* the delivery of a notification failed and the pass has gone on to write
\* its summary
C9_Witness ==
  \E t \in Threads :
    /\ pc[t] = "returned"
    /\ \E i \in Defs(t) : \E k \in EvIdx(t, i, "send_email") :
         events[t][k].smtp = "smtp_error"

\* C10: housekeeping is best-effort per file: a pass never ends while
\* entries of the log directory are still unexamined, whatever deletion
\* failed.
C10_HousekeepingBestEffort ==
  \A t \in Threads : pc[t] = "dead" => listing[t] = {}

\* C11: resume.log is written once per pass: every pass that was started
\* and has ended has appended exactly one line, so the file holds one line
\* per ended pass.
C11_OneLinePerPass ==
  Len(resume_log) = Cardinality({t \in Threads : pc[t] \in {"returned", "done", "dead"}})

\* C18: every entry of a log file was written for the project the file is
\* keyed by: a line of logs/<f> carries a project name that sanitizes to f.
C18_EntriesInOwnFile ==
  \A f \in FileNames : \A k \in DOMAIN files[f].lines :
    project_log_filename(files[f].lines[k].project) = f

\* C19: the alert counter of a pass is at most the number of definitions
\* whose processing has begun, hence at most the number of definitions.
C19_CounterBounded ==
  \A t \in Threads :
    /\ projects_in_alert[t] <= Cardinality({i \in Defs(t) : HasEv(t, i, "starting")})
    /\ projects_in_alert[t] <= Len(request_configs[t])

\* C20: the definitions of a pass are processed one after the other in the
\* order loaded: the starting entry and the HTTP request of a definition
\* come after the finished entry of the one before it, starting entries
\* appear in increasing position, and the summary comes after the finished
\* entry of every definition.
C20_SequentialInOrder ==
  \A t \in Threads :
    /\ \A i \in Defs(t) : i > 1 =>
         \A k \in EvIdx(t, i, "starting") \cup EvIdx(t, i, "request") :
           \E q \in EvIdx(t, i - 1, "finished") : q < k
    /\ \A p, q \in DOMAIN events[t] :
         (p < q /\ events[t][p].e = "starting" /\ events[t][q].e = "starting")
           => events[t][p].i < events[t][q].i
    /\ \A k \in EvIdx(t, 0, "summary") :
         \A i \in Defs(t) : \E q \in EvIdx(t, i, "finished") : q < k

\* a pass over two definitions has written its summary
C20_Witness ==
  \E t \in Threads :
    /\ pc[t] = "returned"
    /\ Len(request_configs[t]) = 2
    /\ HasEv(t, 2, "finished")

\* C12: the first pass starts without any wait, and every later pass starts
\* only after its timer has waited the whole CHECK_INTERVAL, a wait that
\* begins only once the pass before it has ended.
C12_IntervalFromEndOfPass ==
  \A t \in Threads :
    /\ pc[t] \notin {"unborn", "main", "timer"} =>
         IF t = 1 THEN waited[t] = 0 ELSE waited[t] >= CHECK_INTERVAL
    /\ (pc[t] = "timer" \/ waited[t] > 0) => (t > 1 /\ pc[t - 1] = "done")

\* the second pass has started, after a full interval
C12_Witness == pc[2] = "clean" /\ waited[2] = CHECK_INTERVAL /\ waited[1] = 0

\* C13: every pass reads the source anew: from its load to its end a pass
\* works on exactly the definitions of the source as it is, also after the
\* source was edited since the pass before, and it begins no definition
\* outside that list.
AfterLoad(t) ==
  pc[t] \in {"begin", "request", "notify", "except", "notify_error", "finally",
             "summary", "returned"}

C13_ReloadedEveryPass ==
  \A t \in Threads : AfterLoad(t) =>
    /\ loaded[t] = csv
    /\ request_configs[t] = read_requests_csv(csv)
    /\ \A k \in DOMAIN events[t] : events[t][k].e = "starting" => events[t][k].i \in Defs(t)

\* the source was edited after the first pass and the second pass has
\* evaluated the definitions of the edited source
C13_Witness ==
  /\ pc[2] = "returned"
  /\ Len(resume_log) = 2 /\ resume_log[1].total = 2 /\ resume_log[2].total = 1
  /\ Len(request_configs[2]) = 1
  /\ HasEv(2, 1, "finished")

\* C15: when clean_old_logs returns, a regular file of the directory is gone
\* if and only if it was more than max_age_days days old when the directory
\* was listed; every other entry, a file within the window or an entry that
\* is no regular file, is as it was.
C15_OnlyOldFilesRemoved ==
  \A t \in Threads : pc[t] = "read" =>
    \A f \in FileNames :
      LET b == before[t][f]
          old == b.state = "file" /\ b.age > max_age_days * Day
      IN /\ b.state = "file" => (files[f].state = "absent" <=> old)
         /\ ~old => files[f] = b

\* the 31-day file is gone and the fresh one is in place
C15_Witness ==
  /\ pc[1] = "read"
  /\ before[1][<<"o">>] = File(31 * Day) /\ files[<<"o">>] = Absent
  /\ before[1][<<"p">>] = File(0) /\ files[<<"p">>] = File(0)

\* C16: sanitize_filename keeps the length of the name, keeps every
\* alphanumeric character and puts an underscore for every other one; so a
\* name of alphanumeric characters comes back unchanged and sanitizing a
\* sanitized name changes nothing.
C16_SanitizeFilename ==
  result.done =>
    /\ ~result.raised
    /\ Len(result.v) = Len(arg)
    /\ \A k \in DOMAIN arg :
         result.v[k] = IF arg[k] \in Alnum THEN arg[k] ELSE "_"
    /\ (\A k \in DOMAIN arg : arg[k] \in Alnum) => result.v = arg
    /\ sanitize_filename(result.v) = result.v

\* a name with a dot, a space and a letter has been sanitized
C16_Witness ==
  /\ result.done
  /\ arg = <<".", " ", "a">>
  /\ result.v = <<"_", "_", "a">>

\* the fields of a row other than its JSON fields
present(row, col) == col \in DOMAIN row /\ row[col].k = "str" /\ row[col].v # << >>
absent(row, col) == ~present(row, col)
malformed_or_empty(row, col) ==
  col \in DOMAIN row /\ row[col].k = "str" /\ row[col].v \notin ValidJson

\* C14: for a file whose rows give a status and a method, read_requests_csv
\* returns one definition per data row in the order of the rows, and a row
\* whose headers_json is empty or malformed has the empty mapping for headers,
\* a row whose body_json is empty or malformed has no body; no such field
\* makes the call raise.
C14_OneDefinitionPerRow ==
  (/\ result.done
   /\ \A k \in DOMAIN arg.rows :
        present(arg.rows[k], "expected_http_status") /\ present(arg.rows[k], "http_method"))
  => /\ ~result.raised
     /\ Len(result.v) = Len(arg.rows)
     /\ \A k \in DOMAIN arg.rows :
          /\ result.v[k].client = arg.rows[k].client
          /\ malformed_or_empty(arg.rows[k], "headers_json") => result.v[k].headers = EmptyDict
          /\ malformed_or_empty(arg.rows[k], "body_json") => result.v[k].body = PyNone

\* C17: for a file whose JSON fields are harmless, read_requests_csv does not
\* raise, a row without expected_http_status (no such column, a short row, an
\* empty field) gets expectedStatus 200 and a row without http_method gets GET.
C17_DefaultsForAbsentFields ==
  (/\ result.done
   /\ \A k \in DOMAIN arg.rows :
        \A col \in {"headers_json", "body_json"} :
          present(arg.rows[k], col) => ~json_too_deep(arg.rows[k][col].v))
  => /\ ~result.raised
     /\ \A k \in DOMAIN arg.rows :
          /\ absent(arg.rows[k], "expected_http_status")
               => result.v[k].expected_http_status = 200
          /\ absent(arg.rows[k], "http_method") => result.v[k].http_method = GET

====
